---------------------------- MODULE Spec2Model ----------------------------
(***************************************************************************)
(* Model of the hybrid recommendation assistant: the conversation step     *)
(* (get-next-question), the questionnaire component that drives it, the    *)
(* recommendation request (get-recommendations) with its embedding         *)
(* retrieval, and the feedback loop (rate / markWatched /                  *)
(* generate-embedding) over the recommendations and show_embeddings        *)
(* tables.                                                                 *)
(***************************************************************************)
EXTENDS Integers, Sequences, FiniteSets, TLC

VARIABLES
  \* ---- conversation step (get-next-question) ----
  genContent,            \* the parsed generative output the handler works on
  nqResponse,            \* the last response of get-next-question
  \* ---- Questionnaire component ----
  conversationHistory,   \* useState conversationHistory
  currentQuestion,       \* useState currentQuestion
  currentAnswer,         \* useState currentAnswer
  confidence,            \* useState confidence
  isLoading,             \* useState isLoading
  sentHistory,           \* body of the latest get-next-question call
  \* ---- Index page ----
  preferences,           \* useState preferences (null until onComplete)
  recommendations,       \* useState recommendations (the displayed batch)
  step,                  \* useState step
  session,               \* useState session: the signed-in user, or "none"
  showWatchedQuestion,   \* per displayed card: RecommendationCard's useState
  lastOp,                \* per displayed card: the user's latest feedback call
  toast,                 \* the latest toast({...}) shown to the user
  \* ---- persistent store ----
  recsTable,             \* rows of public.recommendations
  showEmbeddings,        \* rows of public.show_embeddings
  \* ---- requests in flight ----
  pendingWrites,         \* client updates of recommendations not yet applied
  embedTasks,            \* generate-embedding invocations not yet served
  embedResponse,         \* the last response of generate-embedding
  \* ---- recommendation request (get-recommendations) ----
  recPc,                 \* position of the request being served
  recReq,                \* the request: caller, watchedShows, preferences
  recCtx,                \* what the enrichment block gathered
  recGen,                \* what the gateway call of the latest request produced
  recInsight,            \* the content type insight of the latest request's prompt
  recResponse,           \* the last response of get-recommendations
  \* ---- watched shows (useWatchedShows) ----
  shows,                 \* useState shows: the local list, newest first
  watchedTable,          \* titles of the user's rows of watched_shows
  watchedOps             \* addShow / removeShow calls awaiting the store

nqVars    == <<genContent, nqResponse>>
qVars     == <<conversationHistory, currentQuestion, currentAnswer, confidence,
               isLoading, sentHistory>>
pageVars  == <<preferences, recommendations, step, session,
               showWatchedQuestion, lastOp, toast>>
dbVars    == <<recsTable, showEmbeddings>>
netVars   == <<pendingWrites, embedTasks, embedResponse>>
recVars   == <<recPc, recReq, recCtx, recGen, recInsight, recResponse>>
wsVars    == <<shows, watchedTable, watchedOps>>
vars      == <<nqVars, qVars, pageVars, dbVars, netVars, recVars, wsVars>>

-----------------------------------------------------------------------------
(* JavaScript values, as far as the handlers distinguish them.             *)
(* A string is a sequence of one-character strings so that split and trim  *)
(* are computed, not assumed.                                              *)

Undefined == [t |-> "undefined"]
Null      == [t |-> "null"]
Num(n)    == [t |-> "number", v |-> n]
Str(s)    == [t |-> "string", v |-> s]
Arr(xs)   == [t |-> "array", v |-> xs]

\* JavaScript truthiness: undefined, null, 0 and "" are falsy.
Truthy(x) ==
  CASE x.t = "undefined" -> FALSE
    [] x.t = "null"      -> FALSE
    [] x.t = "number"    -> x.v # 0
    [] x.t = "string"    -> Len(x.v) > 0
    [] OTHER             -> TRUE

IsWhitespace(c) == c = " "

\* String.prototype.trim
RECURSIVE TrimStart(_)
TrimStart(s) ==
  IF s = <<>> THEN <<>>
  ELSE IF IsWhitespace(Head(s)) THEN TrimStart(Tail(s)) ELSE s

RECURSIVE TrimEnd(_)
TrimEnd(s) ==
  IF s = <<>> THEN <<>>
  ELSE IF IsWhitespace(s[Len(s)]) THEN TrimEnd(SubSeq(s, 1, Len(s) - 1)) ELSE s

Trim(s) == TrimEnd(TrimStart(s))

\* String.prototype.split(','): n separators give n + 1 pieces.
RECURSIVE SplitFrom(_, _, _)
SplitFrom(s, sep, cur) ==
  IF s = <<>> THEN <<cur>>
  ELSE IF Head(s) = sep THEN <<cur>> \o SplitFrom(Tail(s), sep, <<>>)
  ELSE SplitFrom(Tail(s), sep, Append(cur, Head(s)))

Split(s, sep) == SplitFrom(s, sep, <<>>)

\* Array.prototype.map(g => g.trim())
MapTrim(xs) == [i \in 1..Len(xs) |-> Trim(xs[i])]

\* Array.prototype.filter(g => g.length > 0)
FilterNonEmpty(xs) == SelectSeq(xs, LAMBDA g : Len(g) > 0)

\* result.preferences.genres.split(',').map(trim).filter(length > 0)
SplitGenres(s) ==
  LET kept == FilterNonEmpty(MapTrim(Split(s, ",")))
  IN  Arr([i \in 1..Len(kept) |-> Str(kept[i])])

\* The handler's post-processing of result.preferences.genres.
NormalizeGenres(g) ==
  IF Truthy(g) /\ g.t = "string" THEN SplitGenres(g.v)
  ELSE IF ~Truthy(g) THEN Arr(<<>>)
  ELSE g

\* The handler's post-processing of the parsed generative output `result`:
\* genres is rewritten only when result.ready and result.preferences are truthy.
NormalizeResult(result) ==
  IF result.ready /\ Truthy(result.preferences)
  THEN [result EXCEPT !.preferences.genres = NormalizeGenres(@)]
  ELSE result


-----------------------------------------------------------------------------
(* The conversation step: supabase/functions/get-next-question.            *)

MaxStrLen == 3      \* longest genres string drawn for the generative output
MaxArrLen == 2      \* longest genres array drawn for the generative output
MaxAnswers == 3     \* longest conversation history a modelled session builds

HistoryCap == 30    \* z.array(conversationEntrySchema).max(30)

Chars == {"a", " ", ","}

StringsUpTo(n) == UNION {[1..k -> Chars] : k \in 0..n}

\* Elements a generative output may put into a genres array.
ArrItems == {Str(<<"a">>), Str(<<" ", "a">>), Str(<<>>), Num(7)}

ArraysUpTo(n) == UNION {[1..k -> ArrItems] : k \in 0..n}

\* Every shape the generative output may give preferences.genres.
GenresValues ==
  {Undefined, Null, Num(0), Num(7)}
    \cup {Str(s) : s \in StringsUpTo(MaxStrLen)}
    \cup {Arr(xs) : xs \in ArraysUpTo(MaxArrLen)}

\* The scalar categories the system prompt lists as REQUIRED.
RequiredScalars ==
  {"mood", "contentType", "watchTime", "company", "watchStyle", "language"}

\* A preferences object: which scalar categories it carries, its genres, and
\* the value of its contentType (read only when it carries one).
Prefs(missing, g) ==
  [t |-> "object", has |-> RequiredScalars \ missing, genres |-> g,
   contentType |-> "movies only"]

\* The question templates of the system prompt (two of the nine).
Question(id, type) == [t |-> "object", id |-> id, type |-> type]
defaultQuestion == Question("mood", "radio")
genresQuestion  == Question("genres", "checkbox")
Catalog == {defaultQuestion, genresQuestion}

\* The parsed JSON object `result`.
Result(ready, conf, clar, nextQ, prefs) ==
  [ready |-> ready, confidence |-> conf, needsClarification |-> clar,
   nextQuestion |-> nextQ, preferences |-> prefs]

NoResponse == [status |-> 0, body |-> Undefined]

\* nextQuestionRequestSchema.safeParse(body)
ValidHistory(history) == Len(history) <= HistoryCap

\* The serve handler: validation, the gateway call, JSON.parse, the genres
\* normalization, and the catch block. `gen` is what the gateway produced.
ServeNextQuestion(history, gen) ==
  IF ~ValidHistory(history) THEN [status |-> 400, body |-> Undefined]
  ELSE IF gen.kind # "json" THEN [status |-> 500, body |-> Undefined]
  ELSE [status |-> 200, body |-> NormalizeResult(gen.result)]

\* The generative outputs the normalization is applied to: every genres
\* shape, with and without ready, with and without a preferences object.
NormGenOutputs ==
  {[kind |-> "json", result |-> Result(r, Num(100), FALSE, Undefined, p)] :
     r \in BOOLEAN,
     p \in {Undefined} \cup {Prefs({}, g) : g \in GenresValues}}

\* The handler applied to the generative output in flight.
ServeNormalize ==
  /\ nqResponse = NoResponse
  /\ nqResponse' = ServeNextQuestion(<<>>, genContent)
  /\ UNCHANGED <<genContent, qVars, pageVars, dbVars, netVars, recVars, wsVars>>


-----------------------------------------------------------------------------
(* The Questionnaire component and the page state it completes into.       *)

\* The answers a user can give: one radio option, or the checked boxes.
RadioAnswer    == Str(<<"a">>)
CheckboxAnswer == Arr(<<Str(<<"a">>)>>)

\* setCurrentAnswer(data.nextQuestion.type === "checkbox" ? [] : "")
BlankAnswer(question) == IF question.type = "checkbox" THEN Arr(<<>>) ELSE Str(<<>>)

\* handleNext's first guard, negated:
\* !currentAnswer || (Array.isArray(currentAnswer) && currentAnswer.length === 0)
HasAnswer(answer) ==
  Truthy(answer) /\ ~(answer.t = "array" /\ Len(answer.v) = 0)

\* canProceed()
canProceed(answer) ==
  IF answer.t = "array" THEN Len(answer.v) > 0 ELSE answer # Str(<<>>)

\* The Questionnaire is rendered: step === "input" && !preferences
QuestionnaireShown == step = "input" /\ ~Truthy(preferences)

\* The generative outputs drawn in a questionnaire session.
ConfidenceSamples == {Undefined, Num(15), Num(100)}
MissingSamples == {{}, {"mood"}, {"language"}}
GenresSamples ==
  {Undefined, Str(<<"a", ",", "a">>), Arr(<<Str(<<"a">>)>>),
   Arr(<<Str(<<"a">>), Str(<<"a">>)>>)}
PrefSamples ==
  {Undefined} \cup {Prefs(m, g) : m \in MissingSamples, g \in GenresSamples}
SessionGenOutputs ==
  {[kind |-> "error"]}
    \cup {[kind |-> "json", result |-> Result(FALSE, c, clar, q, Undefined)] :
            c \in ConfidenceSamples, clar \in BOOLEAN, q \in Catalog \cup {Undefined}}
    \cup {[kind |-> "json", result |-> Result(TRUE, c, FALSE, Undefined, p)] :
            c \in ConfidenceSamples, p \in PrefSamples}

\* toast({ title, description, variant }): the title (with the description
\* where two toasts share a title) and whether the variant is "destructive".
Toast(title, destructive) == [title |-> title, destructive |-> destructive]
NoToast          == Toast("none", FALSE)
AnswerErrorToast == Toast("Error: Failed to process your answer", TRUE)
ClarifyToast     == Toast("Let's try again", FALSE)
RatedToast       == Toast("Thanks for rating!", FALSE)
RateErrorToast   == Toast("Error: Failed to save rating", TRUE)
StatusToast      == Toast("Got it!", FALSE)
StatusErrorToast == Toast("Error: Failed to update status", TRUE)
RecReadyToast    == Toast("Recommendations ready!", FALSE)
RecErrorToast    == Toast("Error: Failed to get recommendations", TRUE)

\* "Get Started": setStep("input")
GetStarted ==
  /\ step = "start"
  /\ step' = "input"
  /\ UNCHANGED <<nqVars, qVars, preferences, recommendations, session,
                 showWatchedQuestion, lastOp, toast, dbVars, netVars, recVars, wsVars>>

\* handleAnswerChange: a radio option is chosen, or a checkbox toggled (the
\* checkbox handler acts only when the current answer is an array).
handleAnswerChange ==
  /\ QuestionnaireShown
  /\ Truthy(currentQuestion)
  /\ IF currentQuestion.type = "radio"
     THEN currentAnswer' = RadioAnswer
     ELSE /\ currentAnswer.t = "array"
          /\ currentAnswer' = IF currentAnswer = CheckboxAnswer
                              THEN Arr(<<>>) ELSE CheckboxAnswer
  /\ UNCHANGED <<nqVars, conversationHistory, currentQuestion, confidence,
                 isLoading, sentHistory, pageVars, dbVars, netVars, recVars, wsVars>>

\* handleNext up to the await: the answer is appended to the history and the
\* whole history is sent. The code has no limit of its own; maxAnswers bounds
\* the histories a modelled session builds.
handleNextSendWithin(maxAnswers) ==
  /\ QuestionnaireShown
  /\ ~isLoading
  /\ canProceed(currentAnswer)
  /\ HasAnswer(currentAnswer)
  /\ Len(conversationHistory) < maxAnswers
  /\ LET newHistory == Append(conversationHistory,
                              [question |-> currentQuestion, answer |-> currentAnswer])
     IN  /\ conversationHistory' = newHistory
         /\ sentHistory' = newHistory
  /\ isLoading' = TRUE
  /\ UNCHANGED <<nqVars, currentQuestion, currentAnswer, confidence,
                 pageVars, dbVars, netVars, recVars, wsVars>>

handleNextSend == handleNextSendWithin(MaxAnswers)

\* handleNext after the await, on a response without error.
handleNextData(data) ==
  /\ confidence' = IF data.confidence # Undefined THEN data.confidence ELSE confidence
  /\ IF data.ready
     THEN \* onComplete(data.preferences) -> handleQuestionnaireComplete
          /\ preferences' = data.preferences
          /\ UNCHANGED <<currentQuestion, currentAnswer>>
     ELSE \* setCurrentQuestion(data.nextQuestion); reading .type of an absent
          \* nextQuestion throws, and the catch block only shows a toast.
          /\ currentQuestion' = data.nextQuestion
          /\ currentAnswer' = IF Truthy(data.nextQuestion)
                              THEN BlankAnswer(data.nextQuestion)
                              ELSE currentAnswer
          /\ UNCHANGED preferences

\* The toast handleNext ends with: the catch block's after an error response
\* or after reading .type of an absent nextQuestion, the clarification toast,
\* or none (the toast shown before stays).
handleNextToast(response) ==
  IF response.status # 200 THEN AnswerErrorToast
  ELSE IF response.body.ready THEN toast
  ELSE IF ~Truthy(response.body.nextQuestion) THEN AnswerErrorToast
  ELSE IF response.body.needsClarification THEN ClarifyToast
  ELSE toast

\* handleNext from the response on: the endpoint serves the sent history with
\* whatever the generative step produced, one of `outputs`.
handleNextReceiveFrom(outputs) ==
  /\ isLoading
  /\ \E gen \in outputs :
       LET response == ServeNextQuestion(sentHistory, gen)
       IN  /\ nqResponse' = response
           /\ IF response.status = 200
              THEN handleNextData(response.body)
              ELSE UNCHANGED <<currentQuestion, currentAnswer, confidence, preferences>>
           /\ toast' = handleNextToast(response)
  /\ isLoading' = FALSE
  /\ UNCHANGED sentHistory
  /\ UNCHANGED <<genContent, conversationHistory, recommendations, step, session,
                 showWatchedQuestion, lastOp, dbVars, netVars, recVars, wsVars>>

handleNextReceive == handleNextReceiveFrom(SessionGenOutputs)

\* handleBack
handleBack ==
  /\ QuestionnaireShown
  /\ ~isLoading
  /\ Len(conversationHistory) > 0
  /\ LET lastEntry == conversationHistory[Len(conversationHistory)]
     IN  /\ conversationHistory' = SubSeq(conversationHistory, 1, Len(conversationHistory) - 1)
         /\ currentQuestion' = lastEntry.question
         /\ currentAnswer' = lastEntry.answer
  /\ UNCHANGED <<nqVars, confidence, isLoading, sentHistory, pageVars,
                 dbVars, netVars, recVars, wsVars>>


-----------------------------------------------------------------------------
(* The persistent store: public.recommendations and public.show_embeddings. *)

Users == {"u1", "u2"}

MaxEmbedding == 1   \* embedding vectors are the points 0..MaxEmbedding
MaxInFlight == 2    \* requests the page may have in flight together

Embeddings == 0..MaxEmbedding

NoRating == 0       \* user_rating INTEGER, NULL until the user rates

\* A row of public.recommendations; its id is its position in recsTable.
RecRow(user, rec) ==
  [user_id |-> user, title |-> rec.title, type |-> rec.type, genre |-> rec.genre,
   description |-> rec.description, user_rating |-> NoRating, watched |-> FALSE]

\* .update(updateData).eq('id', id): the row's columns are overwritten.
UpdateRating(rows, id, rating) == [rows EXCEPT ![id].user_rating = rating]
UpdateWatched(rows, id, watched) == [rows EXCEPT ![id].watched = watched]

\* user_rating INTEGER NOT NULL CHECK (user_rating >= 4 AND user_rating <= 5)
UserRatingCheck(rating) == rating >= 4 /\ rating <= 5

\* UNIQUE(user_id, title), the conflict target of the upsert.
SameKey(r1, r2) == r1.user_id = r2.user_id /\ r1.title = r2.title

\* The rows of show_embeddings stored for (user, title).
EmbeddingRows(rows, user, title) ==
  {i \in 1..Len(rows) : rows[i].user_id = user /\ rows[i].title = title}

\* An upsert with ignoreDuplicates: a conflicting row is left as it was.
UpsertIgnoreDuplicates(rows, row) ==
  IF \E i \in 1..Len(rows) : SameKey(rows[i], row) THEN rows ELSE Append(rows, row)

\* .upsert(row, { onConflict: 'user_id,title' }): INSERT ... ON CONFLICT DO
\* UPDATE. A conflicting row is overwritten in place, a new one is appended.
Upsert(rows, row) ==
  IF \E i \in 1..Len(rows) : SameKey(rows[i], row)
  THEN [i \in 1..Len(rows) |-> IF SameKey(rows[i], row) THEN row ELSE rows[i]]
  ELSE Append(rows, row)

-----------------------------------------------------------------------------
(* Embedding ingestion: the generate-embedding edge function.              *)

\* A request: the caller's credential ("none", "invalid", or the user a valid
\* token belongs to) and the body { title, description, rating }.
EmbedRequest(auth, title, description, rating) ==
  [auth |-> auth, title |-> title, description |-> description, rating |-> rating]

\* A response: the HTTP status, what the body says, and the rating of the
\* request it answers.
EmbedReply(status, body, req) == [status |-> status, body |-> body, rating |-> req.rating]

\* The guard of a variant that lets every rating through to the upsert.
SkipsNoRating(rating) == FALSE

\* if (rating < 4) return 200 'Embeddings only generated for 4-5 star ratings'
SkipsRating(rating) == rating < 4

\* A variant of the handler that does not look at the credential.
GenerateEmbeddingUnchecked(req, openai, rows) ==
  IF req.rating = 0
  THEN [response |-> EmbedReply(400, "missing fields", req), rows |-> rows]
  ELSE IF SkipsRating(req.rating)
  THEN [response |-> EmbedReply(200, "skipped", req), rows |-> rows]
  ELSE IF ~UserRatingCheck(req.rating)
  THEN [response |-> EmbedReply(500, "error", req), rows |-> rows]
  ELSE [response |-> EmbedReply(200, "stored", req),
        rows |-> Upsert(rows, [user_id |-> req.auth, title |-> req.title,
                               description |-> req.description,
                               embedding |-> openai.embedding,
                               user_rating |-> req.rating])]

\* The serve handler. `openai` is what the embeddings provider answered; the
\* result is the response and the table after the request.
GenerateEmbedding(req, openai, rows) ==
  IF req.rating = 0
  THEN [response |-> EmbedReply(400, "missing fields", req), rows |-> rows]
  ELSE IF SkipsRating(req.rating)
  THEN [response |-> EmbedReply(200, "skipped", req), rows |-> rows]
  ELSE IF req.auth \notin Users
  THEN [response |-> EmbedReply(401, "unauthorized", req), rows |-> rows]
  ELSE IF ~openai.ok
  THEN [response |-> EmbedReply(500, "error", req), rows |-> rows]
  ELSE LET row == [user_id |-> req.auth, title |-> req.title,
                   description |-> req.description, embedding |-> openai.embedding,
                   user_rating |-> req.rating]
       IN  IF ~UserRatingCheck(row.user_rating)
           THEN [response |-> EmbedReply(500, "error", req), rows |-> rows]
           ELSE [response |-> EmbedReply(200, "stored", req),
                 rows |-> Upsert(rows, row)]

\* What the embeddings provider answers: a vector, or an error.
OpenAiOutcomes ==
  {[ok |-> TRUE, embedding |-> e] : e \in Embeddings}
    \cup {[ok |-> FALSE, embedding |-> 0]}

\* The handler reaches the provider only past its three early returns; for a
\* request that does not reach it there is no answer to draw.
CallsProvider(req) ==
  req.rating # 0 /\ ~SkipsRating(req.rating) /\ req.auth \in Users

ProviderOutcomes(req) ==
  IF CallsProvider(req) THEN OpenAiOutcomes ELSE {[ok |-> FALSE, embedding |-> 0]}

\* A variant in which the page waits for the invocation and reports its
\* failure as a failure of the rating.
ServeGenerateEmbeddingAwaited ==
  /\ \E req \in embedTasks : \E openai \in ProviderOutcomes(req) :
       LET out == GenerateEmbedding(req, openai, showEmbeddings)
       IN  /\ embedTasks' = embedTasks \ {req}
           /\ embedResponse' = out.response
           /\ showEmbeddings' = out.rows
           /\ toast' = IF out.response.status = 200 THEN toast ELSE RateErrorToast
  /\ UNCHANGED <<nqVars, qVars, preferences, recommendations, step, session,
                 showWatchedQuestion, lastOp, recsTable, pendingWrites, recVars, wsVars>>

\* One invocation sent by the rate handler is served.
ServeGenerateEmbedding ==
  /\ \E req \in embedTasks : \E openai \in ProviderOutcomes(req) :
       LET out == GenerateEmbedding(req, openai, showEmbeddings)
       IN  /\ embedTasks' = embedTasks \ {req}
           /\ embedResponse' = out.response
           /\ showEmbeddings' = out.rows
  /\ UNCHANGED <<nqVars, qVars, pageVars, recsTable, pendingWrites, recVars, wsVars>>

\* Requests that reach the endpoint from elsewhere than the rate handler: one
\* with a rating below 4 and one with a rating above 5.
DirectRequests ==
  {EmbedRequest("u1", 1, "d2", rating) : rating \in {3, 6}}

\* The endpoint serves a request that did not come from the rate handler.
ServeDirectRequest ==
  /\ \E req \in DirectRequests : \E openai \in ProviderOutcomes(req) :
       LET out == GenerateEmbedding(req, openai, showEmbeddings)
       IN  /\ embedResponse' = out.response
           /\ showEmbeddings' = out.rows
  /\ UNCHANGED <<nqVars, qVars, pageVars, recsTable, pendingWrites, embedTasks,
                 recVars, wsVars>>

-----------------------------------------------------------------------------
(* The feedback loop: RecommendationCard and the Index page's handlers.    *)

Stars == {1, 2, 3, 4, 5}     \* the rating buttons [1, 2, 3, 4, 5]

CardIds == 1..Len(recommendations)

\* The page's requests in flight: updates and generate-embedding invocations.
InFlight == Cardinality(pendingWrites) + Cardinality(embedTasks)

\* An update of public.recommendations on its way to the store.
RateWrite(id, rating) ==
  [kind |-> "rate", id |-> id, rating |-> rating, watched |-> FALSE, liked |-> "unset"]
WatchedWrite(id, watched, liked) ==
  [kind |-> "watched", id |-> id, rating |-> NoRating, watched |-> watched, liked |-> liked]

\* The user's latest call on a card, as far as the dislike override needs it:
\* "dislike" for markWatched(id, true, false) whose update is "pending" or has
\* ended "ok"; "other" for no call, any other call, or a dislike that failed.
Op(call, result) == [call |-> call, result |-> result]
OtherOp == Op("other", "untracked")

IsDislikeWrite(w) == w.kind = "watched" /\ w.liked = "false"

\* The update of the latest dislike has reached the store, or failed.
Settle(ops, i, w, ok) ==
  IF IsDislikeWrite(w) /\ ops[i] = Op("dislike", "pending")
  THEN [ops EXCEPT ![i] = IF ok THEN Op("dislike", "ok") ELSE OtherOp]
  ELSE ops

\* rating >= 4 in handleRate and in handleRateRecommendation
IsHighRating(rating) == rating >= 4

\* RecommendationCard.handleRate -> Index.handleRateRecommendation up to its
\* await: the update is sent; a rating of 4 or 5 opens the watched question
\* at once, without waiting for the update.
handleRate(i, rating) ==
  /\ step = "results"
  /\ session \in Users
  /\ ~showWatchedQuestion[i]
  /\ InFlight < MaxInFlight
  /\ pendingWrites' = pendingWrites \cup {RateWrite(recommendations[i].id, rating)}
  /\ showWatchedQuestion' =
       [showWatchedQuestion EXCEPT ![i] = IF IsHighRating(rating) THEN TRUE ELSE @]
  /\ lastOp' = [lastOp EXCEPT ![i] = OtherOp]
  /\ UNCHANGED <<nqVars, qVars, preferences, recommendations, step, session,
                 toast, dbVars, embedTasks, embedResponse, recVars, wsVars>>

\* The three answers to the watched question: "Not yet", "Yes, loved it!",
\* "Yes, didn't like it".
WatchedAnswers ==
  {[watched |-> FALSE, liked |-> "unset"],
   [watched |-> TRUE, liked |-> "true"],
   [watched |-> TRUE, liked |-> "false"]}

\* RecommendationCard.handleWatchedResponse -> Index.handleWatchedStatus up to
\* its await.
handleWatchedResponse(i, answer) ==
  /\ step = "results"
  /\ session \in Users
  /\ showWatchedQuestion[i]
  /\ InFlight < MaxInFlight
  /\ pendingWrites' =
       pendingWrites \cup {WatchedWrite(recommendations[i].id, answer.watched, answer.liked)}
  /\ lastOp' = [lastOp EXCEPT ![i] =
       IF answer.liked = "false" THEN Op("dislike", "pending") ELSE OtherOp]
  /\ showWatchedQuestion' = [showWatchedQuestion EXCEPT ![i] = FALSE]
  /\ UNCHANGED <<nqVars, qVars, preferences, recommendations, step, session,
                 toast, dbVars, embedTasks, embedResponse, recVars, wsVars>>

\* The card that displays recommendation `id`.
CardOf(id) == CHOOSE i \in CardIds : recommendations[i].id = id

\* handleWatchedStatus's updateData applied to the row:
\* { watched } and, if liked === false, user_rating = 1.
WatchedUpdate(rows, w) ==
  IF w.liked = "false"
  THEN UpdateRating(UpdateWatched(rows, w.id, w.watched), w.id, 1)
  ELSE UpdateWatched(rows, w.id, w.watched)

\* handleRateRecommendation from its await on: the update reaches the store;
\* on an error the handler only shows a toast; after a rating of 4 or 5 it
\* invokes generate-embedding without awaiting it.
ApplyRateWrite(w, ok) ==
  LET i == CardOf(w.id)
      spawns == ok /\ IsHighRating(w.rating)
      task == EmbedRequest(session, recommendations[i].title,
                           recommendations[i].description, w.rating)
  IN  /\ w.kind = "rate"
      /\ pendingWrites' = pendingWrites \ {w}
      /\ recsTable' = IF ok THEN UpdateRating(recsTable, w.id, w.rating) ELSE recsTable
      /\ embedTasks' = IF spawns THEN embedTasks \cup {task} ELSE embedTasks
      /\ lastOp' = Settle(lastOp, i, w, ok)
      /\ toast' = IF ok THEN RatedToast ELSE RateErrorToast
      /\ UNCHANGED <<nqVars, qVars, preferences, recommendations, step, session,
                     showWatchedQuestion, showEmbeddings, embedResponse, recVars, wsVars>>

\* handleWatchedStatus from its await on: the update reaches the store; on
\* success the displayed card takes over the forced rating.
ApplyWatchedWrite(w, ok) ==
  LET i == CardOf(w.id)
  IN  /\ w.kind = "watched"
      /\ pendingWrites' = pendingWrites \ {w}
      /\ recsTable' = IF ok THEN WatchedUpdate(recsTable, w) ELSE recsTable
      /\ recommendations' =
           IF ok /\ w.liked = "false"
           THEN [recommendations EXCEPT ![i].user_rating = 1]
           ELSE recommendations
      /\ lastOp' = Settle(lastOp, i, w, ok)
      /\ toast' = IF ok THEN StatusToast ELSE StatusErrorToast
      /\ UNCHANGED <<nqVars, qVars, preferences, step, session, showWatchedQuestion,
                     showEmbeddings, embedTasks, embedResponse, recVars, wsVars>>

\* A recommendation as the generative step returns it and the page shows it.
Rec(title, type, genre, description, complete) ==
  [title |-> title, type |-> type, genre |-> genre, description |-> description,
   complete |-> complete]

\* A displayed card: the record with the id of its saved row.
Card(rec, id, isRepeat) ==
  [id |-> id, title |-> rec.title, type |-> rec.type, genre |-> rec.genre,
   description |-> rec.description, complete |-> rec.complete,
   user_rating |-> NoRating, isRepeat |-> isRepeat]

-----------------------------------------------------------------------------
(* The recommendation request: supabase/functions/get-recommendations and  *)
(* Index.handleGetRecommendations. Titles are numbers.                     *)

MatchThreshold == 7   \* match_threshold: 0.7, in tenths
MatchCount == 20      \* match_count: 20
SeedLimit == 10       \* .limit(10)
CandidateCap == 30    \* .slice(0, 30)
HistoryLimit == 30    \* .limit(30) of the rating history
BatchSize == 6        \* "Provide 6 VERIFIED-AVAILABLE recommendations"
MaxRecRows == 6       \* a request is made while the table holds fewer rows

Min(a, b) == IF a < b THEN a ELSE b

\* embedding <=> query_embedding: the distance of two vectors; vectors are
\* points on a line, one step apart costs 0.1 of similarity.
Distance(e1, e2) == IF e1 < e2 THEN e2 - e1 ELSE e1 - e2

\* 1 - (embedding <=> query_embedding), in tenths
Similarity(e1, e2) == 10 - Distance(e1, e2)

\* The elements of a sequence in reverse order.
Reverse(s) == [i \in 1..Len(s) |-> s[Len(s) + 1 - i]]

\* The first n elements of a sequence: .limit(n), LIMIT n, .slice(0, n).
Limit(s, n) == SubSeq(s, 1, Min(Len(s), n))

\* The rows at distance d, d+1, ... from the query, nearest first:
\* ORDER BY embedding <=> query_embedding.
RECURSIVE OrderByDistance(_, _, _, _)
OrderByDistance(rows, query, d, maxD) ==
  IF d > maxD THEN <<>>
  ELSE SelectSeq(rows, LAMBDA r : Distance(r.embedding, query) = d)
         \o OrderByDistance(rows, query, d + 1, maxD)

\* The largest distance between the query and a row.
MaxDistance(rows, query) ==
  IF rows = <<>> THEN 0
  ELSE CHOOSE d \in {Distance(rows[i].embedding, query) : i \in 1..Len(rows)} :
         \A i \in 1..Len(rows) : Distance(rows[i].embedding, query) <= d

\* match_show_embeddings(query_embedding, match_threshold, match_count): a
\* SECURITY DEFINER function, so it reads the rows of every user.
match_show_embeddings(rows, query_embedding, match_threshold, match_count) ==
  LET similar == SelectSeq(rows, LAMBDA r :
                   Similarity(r.embedding, query_embedding) > match_threshold)
  IN  Limit(OrderByDistance(similar, query_embedding, 0,
                            MaxDistance(similar, query_embedding)),
            match_count)

\* .from('recommendations').select('title').eq('user_id', userId)
TitlesOf(rows, userId) ==
  LET mine == SelectSeq(rows, LAMBDA r : r.user_id = userId)
  IN  [i \in 1..Len(mine) |-> mine[i].title]

\* The elements of a sequence as a set.
Range(s) == {s[i] : i \in 1..Len(s)}

\* .from('show_embeddings').eq('user_id', userId).gte('user_rating', 4)
\*   .order('created_at', { ascending: false }).limit(10)
SeedEmbeddings(rows, userId) ==
  Limit(Reverse(SelectSeq(rows, LAMBDA r :
          r.user_id = userId /\ r.user_rating >= 4)), SeedLimit)

\* The entries of a query result that pass the forEach's condition, in order.
Eligible(similarShows, seedTitle, watchedShows, previouslyRecommended) ==
  SelectSeq([i \in 1..Len(similarShows) |-> [pos |-> i, title |-> similarShows[i].title]],
            LAMBDA s : /\ s.title # seedTitle
                       /\ s.title \notin Range(watchedShows)
                       /\ s.title \notin Range(previouslyRecommended))

\* A variant that collects the titles in an array: a title found for two
\* seeds is added twice.
AddSimilarToArray(all, similarShows, seedTitle, watchedShows, previouslyRecommended) ==
  LET eligible == Eligible(similarShows, seedTitle, watchedShows, previouslyRecommended)
  IN  all \o [i \in 1..Len(eligible) |-> eligible[i].title]

\* similarShows.forEach: a title is added to the Set allSimilarTitles unless
\* it is this seed's own title, a watched show or a previously recommended
\* title. A Set keeps its elements in the order of their first insertion: a
\* title is appended unless the Set, or an earlier entry of this result,
\* holds it already.
AddSimilar(all, similarShows, seedTitle, watchedShows, previouslyRecommended) ==
  LET eligible == Eligible(similarShows, seedTitle, watchedShows, previouslyRecommended)
      added == SelectSeq(eligible, LAMBDA s :
                 /\ s.title \notin Range(all)
                 /\ \A j \in 1..(s.pos - 1) : similarShows[j].title # s.title)
  IN  all \o [i \in 1..Len(added) |-> added[i].title]

\* for (const userEmbedding of embeddings): one similarity query per seed.
RECURSIVE AllSimilarTitles(_, _, _, _, _)
AllSimilarTitles(all, embeddings, rows, watchedShows, previouslyRecommended) ==
  IF embeddings = <<>> THEN all
  ELSE LET userEmbedding == Head(embeddings)
           similarShows == match_show_embeddings(rows, userEmbedding.embedding,
                                                 MatchThreshold, MatchCount)
       IN  AllSimilarTitles(
             AddSimilar(all, similarShows, userEmbedding.title, watchedShows,
                        previouslyRecommended),
             Tail(embeddings), rows, watchedShows, previouslyRecommended)

\* .from('recommendations').select(...).eq('user_id', userId)
\*   .not('user_rating', 'is', null).order('created_at', { ascending: false })
\*   .limit(30), as the titles of its rows.
RatingHistory(rows, userId) ==
  LET rated == SelectSeq(rows, LAMBDA r :
                 r.user_id = userId /\ r.user_rating # NoRating)
  IN  Limit(Reverse([i \in 1..Len(rated) |-> rated[i].title]), HistoryLimit)

\* The same query as its rows, most recent first.
RatingHistoryRows(rows, userId) ==
  Limit(Reverse(SelectSeq(rows, LAMBDA r :
          r.user_id = userId /\ r.user_rating # NoRating)), HistoryLimit)

\* A failure of one read of the enrichment block: the credential check
\* ("user"), the fetch of the titles recommended before ("prev"), of the
\* rating history ("hist"), of the seeds ("emb"), or the similarity queries
\* ("sim"). The read returns no data ("nodata") or throws ("throws").
Faults(at, how) == [at |-> at, how |-> how]
NoFault == Faults("none", "none")
FaultSamples ==
  {NoFault}
    \cup {Faults(at, how) : at \in {"user", "prev", "hist", "emb", "sim"},
                            how \in {"nodata", "throws"}}

\* The enrichment block of the handler: the caller, the titles recommended
\* before, the rating history, the seeds and the candidates handed to the
\* generative step.
Context(userId, previouslyRecommended, ratingHistory, seeds, candidates) ==
  [userId |-> userId, previouslyRecommended |-> previouslyRecommended,
   ratingHistory |-> ratingHistory, seeds |-> seeds, candidates |-> candidates]

\* A read that returns no data leaves its variable as initialised and the
\* block goes on; a read that throws ends the block in its catch, with the
\* variables assigned so far.
Enrich(req, faults, recs, embeddingRows) ==
  IF req.auth \notin Users \/ faults.at = "user"
  THEN Context("none", <<>>, <<>>, <<>>, <<>>)
  ELSE LET userId == req.auth
           previouslyRecommended ==
             IF faults.at = "prev" THEN <<>> ELSE TitlesOf(recs, userId)
           ratingHistory ==
             IF faults.at = "hist" THEN <<>> ELSE RatingHistory(recs, userId)
           embeddings ==
             IF faults.at = "emb" THEN <<>> ELSE SeedEmbeddings(embeddingRows, userId)
           seeds == [i \in 1..Len(embeddings) |-> embeddings[i].title]
           all == AllSimilarTitles(<<>>, embeddings, embeddingRows,
                                   req.watchedShows, previouslyRecommended)
       IN  IF faults = Faults("prev", "throws")
           THEN Context(userId, <<>>, <<>>, <<>>, <<>>)
           ELSE IF faults = Faults("hist", "throws")
           THEN Context(userId, previouslyRecommended, <<>>, <<>>, <<>>)
           ELSE IF faults = Faults("emb", "throws")
           THEN Context(userId, previouslyRecommended, ratingHistory, <<>>, <<>>)
           ELSE IF faults.at = "sim"
           THEN Context(userId, previouslyRecommended, ratingHistory, seeds, <<>>)
           ELSE Context(userId, previouslyRecommended, ratingHistory, seeds,
                        Limit(all, CandidateCap))

\* ratingHistory as the handler holds it after the enrichment block: the
\* query's rows, or [] when the query was not reached or returned no data.
HistoryRows(context, recs) ==
  IF context.ratingHistory = <<>> THEN <<>>
  ELSE RatingHistoryRows(recs, context.userId)

\* r.type.toLowerCase().includes('series') / .includes('movie')
SeriesRatings(history) == SelectSeq(history, LAMBDA r : r.type = "Series")
MovieRatings(history) == SelectSeq(history, LAMBDA r : r.type = "Movie")

\* reduce((sum, r) => sum + r.user_rating, 0)
RECURSIVE SumRatings(_)
SumRatings(ratings) ==
  IF ratings = <<>> THEN 0 ELSE Head(ratings).user_rating + SumRatings(Tail(ratings))

\* ratings.length > 0 ? sum / ratings.length : 0, as a fraction. For the
\* histories drawn here (at most three rated rows) the comparison of the
\* code's floating-point quotients comes out as that of the exact fractions.
Avg(ratings) ==
  IF Len(ratings) > 0 THEN [num |-> SumRatings(ratings), den |-> Len(ratings)]
  ELSE [num |-> 0, den |-> 1]

Abs(n) == IF n < 0 THEN -n ELSE n

\* Math.abs(a - b) > 0.5 of two fractions
DifferByMoreThanHalf(a, b) ==
  2 * Abs(a.num * b.den - b.num * a.den) > a.den * b.den

\* a > b of two fractions
Greater(a, b) == a.num * b.den > b.num * a.den

\* The INSIGHT line of the pattern analysis: absent when there is no rating
\* history or no rated series or movie.
NoInsight == "none"

ContentTypeInsight(ratingHistory) ==
  LET seriesRatings == SeriesRatings(ratingHistory)
      movieRatings == MovieRatings(ratingHistory)
      seriesAvg == Avg(seriesRatings)
      movieAvg == Avg(movieRatings)
  IN  IF Len(ratingHistory) = 0 THEN NoInsight
      ELSE IF ~(Len(seriesRatings) > 0 \/ Len(movieRatings) > 0) THEN NoInsight
      ELSE IF DifferByMoreThanHalf(seriesAvg, movieAvg)
           THEN (IF Greater(seriesAvg, movieAvg)
                 THEN "STRONGLY prefers TV Series" ELSE "STRONGLY prefers Movies")
           ELSE "No strong preference between Series and Movies"

\* preferences.contentType || 'both'
ContentTypeOf(p) == IF "contentType" \in p.has THEN p.contentType ELSE "both"

WithContentType(p, contentType) == [p EXCEPT !.contentType = contentType]

MaxGenres == 20       \* genres: z.array(z.string().max(50)).max(20)

\* preferencesSchema: mood, watchTime, company, watchStyle and language are
\* required strings, genres an array of at most 20 strings.
ValidPreferences(p) ==
  /\ Truthy(p)
  /\ {"mood", "watchTime", "company", "watchStyle", "language"} \subseteq p.has
  /\ p.genres.t = "array"
  /\ Len(p.genres.v) <= MaxGenres
  /\ \A i \in 1..Len(p.genres.v) : p.genres.v[i].t = "string"

\* The body the page sends, and what handleGetRecommendations keeps for
\* itself: the titles it fetched before the call.
RecRequest(prefs, watchedShows, auth, previousTitles) ==
  [preferences |-> prefs, watchedShows |-> watchedShows, auth |-> auth,
   previousTitles |-> previousTitles]

\* The batches the generative step is tried with: n records with titles
\* offset+1 .. offset+n; all of one type or alternating; the genres spread
\* two by two or the first three alike; the first record with or without its
\* matchReason.
RecGenres == <<"Comedy", "Drama", "Thriller">>

TypeAt(types, i) ==
  IF types = "mixed" THEN (IF i % 2 = 1 THEN "Movie" ELSE "Series") ELSE types

GenreAt(spread, i) ==
  IF ~spread /\ i <= 3 THEN RecGenres[1] ELSE RecGenres[(((i - 1) \div 2) % 3) + 1]

Batch(offset, types, spread, n, complete) ==
  [i \in 1..n |->
     Rec(offset + i, TypeAt(types, i), GenreAt(spread, i), "d1", complete \/ i # 1)]

\* What the gateway call produces: an error status, content that is not
\* JSON, or a JSON object with or without a recommendations array.
RecJson(recs) == [kind |-> "json", body |-> [t |-> "object", recommendations |-> recs]]

\* No gateway call has been made for the request.
NoGen == [kind |-> "none", body |-> Undefined]

RecGenOutputs ==
  {[kind |-> "gatewayError", body |-> Undefined],
   [kind |-> "unparseable", body |-> Undefined],
   RecJson(Undefined),
   RecJson(Arr(Batch(3, "Movie", TRUE, BatchSize - 1, TRUE))),
   RecJson(Arr(Batch(3, "Movie", TRUE, BatchSize, FALSE)))}
    \cup {RecJson(Arr(Batch(offset, types, spread, BatchSize, TRUE))) :
            offset \in {0, 3}, types \in {"Movie", "Series", "mixed"},
            spread \in BOOLEAN}

\* A variant of the handler without the enrichment block's catch: a failed
\* read of a signed-in caller's request fails the request.
ServeRecommendationsRequestStrict(req, faults, gen, recs, embeddingRows) ==
  IF ~ValidPreferences(req.preferences)
  THEN [context |-> Undefined, response |-> [status |-> 400, body |-> Undefined]]
  ELSE LET context == Enrich(req, faults, recs, embeddingRows)
       IN  IF gen.kind # "json" \/ (req.auth \in Users /\ faults # NoFault)
           THEN [context |-> context, response |-> [status |-> 500, body |-> Undefined]]
           ELSE [context |-> context, response |-> [status |-> 200, body |-> gen.body]]

\* A variant of the handler that needs seeds: a request whose enrichment
\* found no embedding of the caller fails.
ServeRecommendationsRequestSeeded(req, faults, gen, recs, embeddingRows) ==
  IF ~ValidPreferences(req.preferences)
  THEN [context |-> Undefined, response |-> [status |-> 400, body |-> Undefined]]
  ELSE LET context == Enrich(req, faults, recs, embeddingRows)
       IN  IF gen.kind # "json" \/ context.seeds = <<>>
           THEN [context |-> context, response |-> [status |-> 500, body |-> Undefined]]
           ELSE [context |-> context, response |-> [status |-> 200, body |-> gen.body]]

\* The serve handler: validation, enrichment, the gateway call, JSON.parse of
\* its content, and the response. The parsed object is returned as it is.
ServeRecommendationsRequest(req, faults, gen, recs, embeddingRows) ==
  IF ~ValidPreferences(req.preferences)
  THEN [context |-> Undefined, response |-> [status |-> 400, body |-> Undefined]]
  ELSE LET context == Enrich(req, faults, recs, embeddingRows)
       IN  IF gen.kind # "json"
           THEN [context |-> context, response |-> [status |-> 500, body |-> Undefined]]
           ELSE [context |-> context, response |-> [status |-> 200, body |-> gen.body]]

\* The watched-shows lists a request is tried with.
WatchedSamples == {<<>>, <<3>>}

\* handleQuestionnaireComplete: setPreferences(prefs)
RecPrefSamples ==
  {WithContentType(Prefs({}, Arr(<<Str(<<"a">>), Str(<<"a">>)>>)), contentType) :
     contentType \in {"Movies only", "Series only", "Both"}}
    \cup {Prefs({"mood"}, Arr(<<Str(<<"a">>), Str(<<"a">>)>>))}

handleQuestionnaireComplete ==
  /\ QuestionnaireShown
  /\ \E prefs \in RecPrefSamples : preferences' = prefs
  /\ UNCHANGED <<nqVars, qVars, recommendations, step, session,
                 showWatchedQuestion, lastOp, toast, dbVars, netVars, recVars, wsVars>>

\* handleGetRecommendations up to the invoke: the page reads the titles
\* recommended before (none when signed out or when the read fails) and sends
\* the request. The button is disabled while a request is loading.
handleGetRecommendations ==
  /\ step = "input"
  /\ Truthy(preferences)
  /\ recPc = "idle"
  /\ Len(recsTable) < MaxRecRows
  /\ \E watchedShows \in WatchedSamples, prevOk \in BOOLEAN :
       recReq' = RecRequest(preferences, watchedShows, session,
                            IF session \in Users /\ prevOk
                            THEN TitlesOf(recsTable, session) ELSE <<>>)
  /\ recPc' = "sent"
  /\ recCtx' = Undefined
  /\ recGen' = NoGen
  /\ recInsight' = NoInsight
  /\ recResponse' = NoResponse
  /\ UNCHANGED <<nqVars, qVars, pageVars, dbVars, netVars, wsVars>>

\* The edge function serves the request.
ServeRecommendations ==
  /\ recPc = "sent"
  /\ \E faults \in FaultSamples, gen \in RecGenOutputs :
       LET out == ServeRecommendationsRequest(recReq, faults, gen, recsTable,
                                              showEmbeddings)
       IN  /\ recCtx' = out.context
           /\ recGen' = IF out.response.status = 400 THEN NoGen ELSE gen
           /\ recInsight' = IF out.response.status = 400 THEN NoInsight
                             ELSE ContentTypeInsight(
                                    HistoryRows(out.context, recsTable))
           /\ recResponse' = out.response
  /\ recPc' = "responded"
  /\ UNCHANGED <<nqVars, qVars, pageVars, dbVars, netVars, recReq, wsVars>>

\* .insert(recommendationsToSave): one statement; a record without
\* matchReason violates match_reason TEXT NOT NULL and nothing is inserted.
InsertFails(recs) == \E i \in 1..Len(recs) : ~recs[i].complete

\* handleGetRecommendations from the invoke on. An error response, or a body
\* without a recommendations array (the .map throws), ends in the catch
\* block. A signed-in user's batch is saved and shown with the ids of its
\* rows; when the insert fails nothing is saved or shown. In both cases, and
\* for a signed-out user, the page moves to the results step.
ReceiveRecommendations ==
  /\ recPc = "responded"
  /\ recPc' = "idle"
  /\ IF recResponse.status # 200 \/ ~Truthy(recResponse.body.recommendations)
     THEN /\ toast' = RecErrorToast
          /\ UNCHANGED <<preferences, recommendations, step, session,
                         showWatchedQuestion, lastOp, dbVars>>
     ELSE LET recs == recResponse.body.recommendations.v
              saved == session \in Users /\ ~InsertFails(recs)
              shown == session \notin Users \/ saved
              base == Len(recsTable)
          IN  /\ recsTable' =
                   IF saved
                   THEN recsTable \o [i \in 1..Len(recs) |-> RecRow(session, recs[i])]
                   ELSE recsTable
              /\ recommendations' =
                   IF saved
                   THEN [i \in 1..Len(recs) |->
                           Card(recs[i], base + i,
                                recs[i].title \in Range(recReq.previousTitles))]
                   ELSE IF shown
                   THEN [i \in 1..Len(recs) |-> Card(recs[i], 0, FALSE)]
                   ELSE recommendations
              /\ showWatchedQuestion' =
                   IF shown THEN [i \in 1..Len(recs) |-> FALSE] ELSE showWatchedQuestion
              /\ lastOp' =
                   IF shown THEN [i \in 1..Len(recs) |-> OtherOp]
                   ELSE lastOp
              /\ step' = "results"
              /\ toast' = RecReadyToast
              /\ UNCHANGED <<preferences, session, showEmbeddings>>
  /\ UNCHANGED <<nqVars, qVars, netVars, recReq, recCtx, recGen, recInsight,
                 recResponse, wsVars>>

\* "Start Over" on the results page: setStep("input"); setPreferences(null)
StartOver ==
  /\ step = "results"
  /\ step' = "input"
  /\ preferences' = Null
  /\ UNCHANGED <<nqVars, qVars, recommendations, session, showWatchedQuestion,
                 lastOp, toast, dbVars, netVars, recVars, wsVars>>

-----------------------------------------------------------------------------
(* The watched-shows hook: hooks/useWatchedShows and components/WatchedShows. *)
(* The table watched_shows is the sequence of the user's titles in insertion  *)
(* order.                                                                     *)

WatchedTitles == {1, 2}

MaxWatched == 3   \* most rows of watched_shows a modelled user stores

SignInToast         == Toast("Sign in required", TRUE)
SaveShowErrorToast  == Toast("Error: Failed to save show", TRUE)
RemoveShowErrorToast == Toast("Error: Failed to remove show", TRUE)

\* A call of addShow or removeShow at its await: the title and the `shows` of
\* the render whose closure made the call.
WatchedOp(kind, title, closure) == [kind |-> kind, title |-> title, closure |-> closure]

\* WatchedShows.isAdding: an addShow call of the component is awaited.
isAdding == \E op \in watchedOps : op.kind = "add"

\* The watched shows are rendered: step === "input" with preferences.
WatchedShowsShown == step = "input" /\ Truthy(preferences)

\* WatchedShows.handleAddShow -> addShow up to its await. Without a user the
\* hook shows a toast; a title the rendered list holds is not sent.
addShow(title) ==
  /\ WatchedShowsShown
  /\ ~isAdding
  /\ IF session \notin Users
     THEN /\ toast' = SignInToast
          /\ UNCHANGED watchedOps
     ELSE /\ title \notin Range(shows)
          /\ Cardinality(watchedOps) < MaxInFlight
          /\ Len(watchedTable) < MaxWatched
          /\ watchedOps' = watchedOps \cup {WatchedOp("add", title, shows)}
          /\ UNCHANGED toast
  /\ UNCHANGED <<nqVars, qVars, preferences, recommendations, step, session,
                 showWatchedQuestion, lastOp, dbVars, netVars, recVars,
                 shows, watchedTable>>

\* addShow from its await on: the insert reaches the store or fails; on
\* success setShows([title, ...shows]) with the shows of the call's closure.
CompleteAddShow(op, ok) ==
  /\ op.kind = "add"
  /\ watchedOps' = watchedOps \ {op}
  /\ watchedTable' = IF ok THEN Append(watchedTable, op.title) ELSE watchedTable
  /\ shows' = IF ok THEN <<op.title>> \o op.closure ELSE shows
  /\ toast' = IF ok THEN toast ELSE SaveShowErrorToast
  /\ UNCHANGED <<nqVars, qVars, preferences, recommendations, step, session,
                 showWatchedQuestion, lastOp, dbVars, netVars, recVars>>

\* WatchedShows.handleRemoveShow -> removeShow up to its await: the X button
\* of a rendered title.
removeShow(title) ==
  /\ WatchedShowsShown
  /\ session \in Users
  /\ title \in Range(shows)
  /\ Cardinality(watchedOps) < MaxInFlight
  /\ watchedOps' = watchedOps \cup {WatchedOp("remove", title, shows)}
  /\ UNCHANGED <<nqVars, qVars, pageVars, dbVars, netVars, recVars,
                 shows, watchedTable>>

\* removeShow from its await on: the delete reaches the store or fails; on
\* success setShows(shows.filter(s => s !== title)) with the shows of the
\* call's closure.
CompleteRemoveShow(op, ok) ==
  /\ op.kind = "remove"
  /\ watchedOps' = watchedOps \ {op}
  /\ watchedTable' = IF ok THEN SelectSeq(watchedTable, LAMBDA t : t # op.title)
                     ELSE watchedTable
  /\ shows' = IF ok THEN SelectSeq(op.closure, LAMBDA s : s # op.title) ELSE shows
  /\ toast' = IF ok THEN toast ELSE RemoveShowErrorToast
  /\ UNCHANGED <<nqVars, qVars, preferences, recommendations, step, session,
                 showWatchedQuestion, lastOp, dbVars, netVars, recVars>>

-----------------------------------------------------------------------------
(* Initial states and specifications.                                      *)

\* No get-next-question call has been served yet.
InitConversationStep ==
  /\ genContent = [kind |-> "none"]
  /\ nqResponse = NoResponse

\* The Questionnaire's useState initialisers with an empty sessionStorage.
InitQuestionnaire ==
  /\ conversationHistory = <<>>
  /\ currentQuestion = defaultQuestion
  /\ currentAnswer = Str(<<>>)
  /\ confidence = Num(10)
  /\ isLoading = FALSE
  /\ sentHistory = <<>>

\* The Index page's useState initialisers with an empty sessionStorage.
InitPage ==
  /\ preferences = Null
  /\ recommendations = <<>>
  /\ step = "start"
  /\ session = "none"
  /\ showWatchedQuestion = <<>>
  /\ lastOp = <<>>
  /\ toast = NoToast

\* Both tables empty. A table is the sequence of its rows in insertion order
\* (created_at ascending); a recommendation's id is its position.
InitStore ==
  /\ recsTable = <<>>
  /\ showEmbeddings = <<>>

InitNet ==
  /\ pendingWrites = {}
  /\ embedTasks = {}
  /\ embedResponse = EmbedReply(0, "none", EmbedRequest("none", 0, "none", NoRating))

\* The hook of a user without watched shows, after loadShows.
InitWatched ==
  /\ shows = <<>>
  /\ watchedTable = <<>>
  /\ watchedOps = {}

InitRec ==
  /\ recPc = "idle"
  /\ recReq = Undefined
  /\ recCtx = Undefined
  /\ recGen = NoGen
  /\ recInsight = NoInsight
  /\ recResponse = NoResponse

\* A questionnaire session, from the start page to the delivered preferences.
InitSession ==
  /\ InitConversationStep /\ InitQuestionnaire /\ InitPage
  /\ InitStore /\ InitNet /\ InitRec /\ InitWatched

NextSession ==
  \/ GetStarted
  \/ handleAnswerChange
  \/ handleNextSend
  \/ handleNextReceive
  \/ handleBack

SpecSession == InitSession /\ [][NextSession]_vars

\* The embedding another user stored earlier for the same title.
OtherUsersRow ==
  [user_id |-> "u2", title |-> 1, description |-> "d1", embedding |-> 0,
   user_rating |-> 5]

\* The results page of a signed-in user after a saved batch: the card of a
\* recommendation and its row in the store.
FeedbackBatch == <<Rec(1, "Movie", "Comedies", "d1", TRUE)>>

InitFeedback ==
  /\ InitConversationStep /\ InitQuestionnaire /\ InitNet /\ InitRec /\ InitWatched
  /\ preferences = Prefs({}, Arr(<<Str(<<"a">>), Str(<<"a">>)>>))
  /\ step = "results"
  /\ session = "u1"
  /\ recommendations = [i \in 1..Len(FeedbackBatch) |-> Card(FeedbackBatch[i], i, FALSE)]
  /\ recsTable = [i \in 1..Len(FeedbackBatch) |-> RecRow("u1", FeedbackBatch[i])]
  /\ showEmbeddings = <<OtherUsersRow>>
  /\ showWatchedQuestion = [i \in 1..Len(FeedbackBatch) |-> FALSE]
  /\ lastOp = [i \in 1..Len(FeedbackBatch) |-> OtherOp]
  /\ toast = NoToast

NextFeedback ==
  \/ \E i \in CardIds, rating \in Stars : handleRate(i, rating)
  \/ \E i \in CardIds, answer \in WatchedAnswers : handleWatchedResponse(i, answer)
  \/ \E w \in pendingWrites, ok \in BOOLEAN : ApplyRateWrite(w, ok)
  \/ \E w \in pendingWrites, ok \in BOOLEAN : ApplyWatchedWrite(w, ok)
  \/ ServeGenerateEmbedding

SpecFeedback == InitFeedback /\ [][NextFeedback]_vars

\* The feedback loop together with requests that reach generate-embedding
\* from elsewhere (another user, another session, no session at all).
NextIngestion ==
  \/ NextFeedback
  \/ ServeDirectRequest

SpecIngestion == InitFeedback /\ [][NextIngestion]_vars

\* The conversation step's handler on every drawn generative output.
InitNormalize ==
  /\ genContent \in NormGenOutputs
  /\ nqResponse = NoResponse
  /\ InitQuestionnaire /\ InitPage /\ InitStore /\ InitNet /\ InitRec /\ InitWatched

NextNormalize == ServeNormalize

SpecNormalize == InitNormalize /\ [][NextNormalize]_vars

\* A row of show_embeddings.
EmbeddingRow(user, title, embedding, rating) ==
  [user_id |-> user, title |-> title, description |-> "d1",
   embedding |-> embedding, user_rating |-> rating]

\* A row of recommendations that its user has rated.
RatedRow(user, title, rating) ==
  [RecRow(user, Rec(title, "Movie", "Comedy", "d1", TRUE)) EXCEPT !.user_rating = rating]

\* The embeddings of two titles u1 loved, of a similar and of a dissimilar
\* title of u2.
SeededEmbeddings ==
  <<EmbeddingRow("u1", 1, 0, 5), EmbeddingRow("u2", 3, 0, 5),
    EmbeddingRow("u2", 7, 4, 5), EmbeddingRow("u1", 2, 0, 4)>>

\* The stores a recommendation request is made against: empty; u1 has rated
\* two recommended titles and their embeddings are stored; u1's embeddings
\* were stored by direct calls of generate-embedding, without recommendations;
\* only u2 has stored embeddings.
StoreSamples ==
  {[recs |-> <<>>, embeddings |-> <<>>],
   [recs |-> <<RatedRow("u1", 1, 5), RatedRow("u1", 2, 4)>>,
    embeddings |-> SeededEmbeddings],
   [recs |-> <<>>, embeddings |-> SeededEmbeddings],
   [recs |-> <<>>, embeddings |-> <<OtherUsersRow, EmbeddingRow("u2", 7, 4, 5)>>]}

\* The page after the questionnaire delivered preferences, signed in or not.
InitRecommend ==
  /\ InitConversationStep /\ InitQuestionnaire /\ InitNet /\ InitRec /\ InitWatched
  /\ step = "input"
  /\ session \in {"none", "u1"}
  /\ preferences \in RecPrefSamples
  /\ recommendations = <<>>
  /\ showWatchedQuestion = <<>>
  /\ lastOp = <<>>
  /\ toast = NoToast
  /\ \E store \in StoreSamples :
       /\ recsTable = store.recs
       /\ showEmbeddings = store.embeddings

NextRecommend ==
  \/ handleGetRecommendations
  \/ ServeRecommendations
  \/ ReceiveRecommendations
  \/ StartOver
  \/ handleQuestionnaireComplete

SpecRecommend == InitRecommend /\ [][NextRecommend]_vars

\* The requests that can reach generate-embedding: with a valid credential of
\* either user or without one, with or without a rating, rated low, high or
\* out of range.
EndpointRequests ==
  {EmbedRequest(auth, title, description, rating) :
     auth \in Users \cup {"invalid"}, title \in {1, 2},
     description \in {"d1", "d2"}, rating \in {0, 3, 5, 6}}

\* The embedding stores a request is served against.
EndpointStores ==
  {<<>>, <<OtherUsersRow>>, <<EmbeddingRow("u1", 1, 0, 5), OtherUsersRow>>}

\* One request on its way to the endpoint.
InitEndpoint ==
  /\ InitConversationStep /\ InitQuestionnaire /\ InitPage /\ InitRec /\ InitWatched
  /\ recsTable = <<>>
  /\ showEmbeddings \in EndpointStores
  /\ pendingWrites = {}
  /\ \E req \in EndpointRequests : embedTasks = {req}
  /\ embedResponse = EmbedReply(0, "none", EmbedRequest("none", 0, "none", NoRating))

NextEndpoint == ServeGenerateEmbedding

SpecEndpoint == InitEndpoint /\ [][NextEndpoint]_vars

MaxSeedsPerPoint == 6   \* most embeddings the caller has stored at one point
MaxNeighbours == 21     \* most embeddings another user has stored near one

\* A store in which u1 loved k0 titles at point 0 and, before them, k1 titles
\* at point 5, and u2 stored n0 titles at point 2 and n1 titles at point 5.
\* A seed at point 0 finds the titles at point 2 with similarity 0.8; a seed
\* at point 5 finds those at point 5 with similarity 1.
CandidateStore(k0, k1, n0, n1) ==
  [i \in 1..k1 |-> EmbeddingRow("u1", 200 + i, 5, 5)]
    \o [i \in 1..n0 |-> EmbeddingRow("u2", i, 2, 5)]
    \o [i \in 1..n1 |-> EmbeddingRow("u2", 100 + i, 5, 5)]
    \o [i \in 1..k0 |-> EmbeddingRow("u1", 300 + i, 0, 5)]

CandidateStores ==
  {CandidateStore(k0, k1, n0, n1) :
     k0 \in {0, 1, MaxSeedsPerPoint}, k1 \in {0, 1, MaxSeedsPerPoint},
     n0 \in {0, MaxNeighbours}, n1 \in {0, MaxNeighbours}}

\* A signed-in user's request against each of these stores.
InitCandidates ==
  /\ InitConversationStep /\ InitQuestionnaire /\ InitNet /\ InitRec /\ InitWatched
  /\ step = "input"
  /\ session = "u1"
  /\ preferences = Prefs({}, Arr(<<Str(<<"a">>), Str(<<"a">>)>>))
  /\ recommendations = <<>>
  /\ showWatchedQuestion = <<>>
  /\ lastOp = <<>>
  /\ toast = NoToast
  /\ recsTable = <<>>
  /\ showEmbeddings \in CandidateStores

NextCandidates ==
  \/ handleGetRecommendations
  \/ ServeRecommendations
  \/ ReceiveRecommendations

SpecCandidates == InitCandidates /\ [][NextCandidates]_vars

MaxLongAnswers == 31   \* longest history a long session builds

\* The generative outputs of a long session: the same question again with
\* ready false, or ready with complete preferences. The system prompt asks
\* for "between 9-13 questions total"; the handler adds no check of its own.
LongGenOutputs ==
  {[kind |-> "json",
    result |-> Result(FALSE, Num(15), FALSE, defaultQuestion, Undefined)],
   [kind |-> "json",
    result |-> Result(TRUE, Num(100), FALSE, Undefined,
                      Prefs({}, Arr(<<Str(<<"a">>)>>)))]}

\* A session of a user who keeps answering, on the input step.
InitLongSession ==
  /\ InitConversationStep /\ InitQuestionnaire
  /\ InitStore /\ InitNet /\ InitRec /\ InitWatched
  /\ preferences = Null
  /\ recommendations = <<>>
  /\ step = "input"
  /\ session = "none"
  /\ showWatchedQuestion = <<>>
  /\ lastOp = <<>>
  /\ toast = NoToast

NextLongSession ==
  \/ handleAnswerChange
  \/ handleNextSendWithin(MaxLongAnswers)
  \/ handleNextReceiveFrom(LongGenOutputs)
  \/ handleBack

SpecLongSession == InitLongSession /\ [][NextLongSession]_vars

MaxRated == 3   \* most rated recommendations a pattern analysis is drawn with

\* A rated row of recommendations of the given type.
TypedRow(user, title, type, rating) ==
  [RecRow(user, Rec(title, type, "Comedy", "d1", TRUE)) EXCEPT !.user_rating = rating]

\* The rating histories the pattern analysis is applied to: up to MaxRated
\* rows of u1, each a movie or a series, rated 4 or 5.
PatternStores ==
  UNION {{[i \in 1..n |-> TypedRow("u1", i, types[i], ratings[i])] :
            types \in [1..n -> {"Movie", "Series"}],
            ratings \in [1..n -> {4, 5}]} : n \in 0..MaxRated}

\* A signed-in user's request against each of these histories.
InitPatterns ==
  /\ InitConversationStep /\ InitQuestionnaire /\ InitNet /\ InitRec /\ InitWatched
  /\ step = "input"
  /\ session = "u1"
  /\ preferences = Prefs({}, Arr(<<Str(<<"a">>), Str(<<"a">>)>>))
  /\ recommendations = <<>>
  /\ showWatchedQuestion = <<>>
  /\ lastOp = <<>>
  /\ toast = NoToast
  /\ recsTable \in PatternStores
  /\ showEmbeddings = <<>>

NextPatterns ==
  \/ handleGetRecommendations
  \/ ServeRecommendations
  \/ ReceiveRecommendations

SpecPatterns == InitPatterns /\ [][NextPatterns]_vars

\* The input step with preferences delivered, signed in or not; the hook has
\* loaded the user's watched shows, newest first.
InitWatchedShows ==
  /\ InitConversationStep /\ InitQuestionnaire /\ InitStore /\ InitNet /\ InitRec
  /\ step = "input"
  /\ session \in {"none", "u1"}
  /\ preferences = Prefs({}, Arr(<<Str(<<"a">>), Str(<<"a">>)>>))
  /\ recommendations = <<>>
  /\ showWatchedQuestion = <<>>
  /\ lastOp = <<>>
  /\ toast = NoToast
  /\ watchedTable \in {<<>>, <<1>>}
  /\ watchedTable # <<>> => session \in Users
  /\ shows = Reverse(watchedTable)
  /\ watchedOps = {}

NextWatchedShows ==
  \/ \E title \in WatchedTitles : addShow(title)
  \/ \E title \in WatchedTitles : removeShow(title)
  \/ \E op \in watchedOps, ok \in BOOLEAN : CompleteAddShow(op, ok)
  \/ \E op \in watchedOps, ok \in BOOLEAN : CompleteRemoveShow(op, ok)

SpecWatchedShows == InitWatchedShows /\ [][NextWatchedShows]_vars

MaxJourneyAnswers == 1   \* answers given before the recommendation request

\* A visit from the start page through the questionnaire to the
\* recommendation request: the preferences a request carries are those a
\* ready response delivered.
NextJourney ==
  \/ GetStarted
  \/ handleAnswerChange
  \/ handleNextSendWithin(MaxJourneyAnswers)
  \/ handleNextReceiveFrom(SessionGenOutputs)
  \/ handleGetRecommendations
  \/ ServeRecommendations
  \/ ReceiveRecommendations

SpecJourney == InitSession /\ [][NextJourney]_vars

-----------------------------------------------------------------------------
(* Claims about the conversation step.                                     *)

\* A preferences value covers every required category: it is an object that
\* carries the six scalar categories and a genres list of at least 2 entries.
RequiredCovered(p) ==
  /\ Truthy(p)
  /\ p.has = RequiredScalars
  /\ p.genres.t = "array"
  /\ Len(p.genres.v) >= 2

\* C1: the conversation step never returns ready=true while a required
\* category (mood, content type, watch time, at least 2 genres, company,
\* watch style, language) is absent from the returned preferences, and the
\* questionnaire never completes with such preferences.
C1_ReadyRequiresCoverage ==
  /\ (nqResponse.status = 200 /\ nqResponse.body.ready)
        => RequiredCovered(nqResponse.body.preferences)
  /\ preferences # Null => RequiredCovered(preferences)

\* A genres value is an ordered list of non-empty strings without leading or
\* trailing whitespace.
IsTrimmedStringList(g) ==
  /\ g.t = "array"
  /\ \A i \in 1..Len(g.v) :
       /\ g.v[i].t = "string"
       /\ Len(g.v[i].v) > 0
       /\ Trim(g.v[i].v) = g.v[i].v

\* C2: in every ready=true response, whatever shape the generative output
\* gave genres, preferences.genres is an ordered list of non-empty trimmed
\* strings (an absent value becomes the empty list).
C2_GenresAlwaysTrimmedList ==
  (nqResponse.status = 200 /\ nqResponse.body.ready
     /\ Truthy(nqResponse.body.preferences))
     => IsTrimmedStringList(nqResponse.body.preferences.genres)

\* C11: no step of a questionnaire session lowers the stored confidence.
C11_ConfidenceNeverDecreases ==
  [][confidence'.v >= confidence.v]_vars

\* The latest get-next-question call answered ready, so handleNext took its
\* ready branch and called onComplete(data.preferences).
ReadyDelivered == nqResponse.status = 200 /\ nqResponse.body.ready

\* C12: once the questionnaire has taken its ready branch, the session is not
\* asking questions again (no Start Over exists in a questionnaire session).
C12_ReadyNeverAsksAgain == ReadyDelivered => ~QuestionnaireShown

\* The latest call failed and the user is still at the question it asked about.
AtFailedQuestion ==
  /\ nqResponse.status \in {400, 500}
  /\ sentHistory # <<>>
  /\ conversationHistory \in
       {sentHistory, SubSeq(sentHistory, 1, Len(sentHistory) - 1)}
  /\ sentHistory[Len(sentHistory)] =
       [question |-> currentQuestion, answer |-> currentAnswer]

\* C13: a failed call may be retried, and the retry sends the same history as
\* the call that failed.
C13_RetrySendsSameHistory ==
  [][(AtFailedQuestion /\ ~isLoading /\ isLoading') => sentHistory' = sentHistory]_vars

\* Array.prototype.join(','): the names separated by commas.
RECURSIVE JoinComma(_)
JoinComma(names) ==
  IF names = <<>> THEN <<>>
  ELSE IF Len(names) = 1 THEN names[1]
  ELSE names[1] \o <<",">> \o JoinComma(Tail(names))

\* The genre names an array of strings stands for: its entries without their
\* surrounding whitespace, the empty ones left out.
GenreNames(g) == FilterNonEmpty(MapTrim([i \in 1..Len(g.v) |-> g.v[i].v]))

IsStringArray(g) ==
  g.t = "array" /\ \A i \in 1..Len(g.v) : g.v[i].t = "string"

\* C23: a ready response whose generative output gave genres as an array of
\* strings carries the same preferences.genres as the handler produces for
\* the comma-joined string of the array's genre names.
C23_ArrayNormalizesLikeJoinedString ==
  (nqResponse.status = 200 /\ nqResponse.body.ready
     /\ Truthy(nqResponse.body.preferences)
     /\ IsStringArray(genContent.result.preferences.genres))
     => nqResponse.body.preferences.genres =
          NormalizeGenres(Str(JoinComma(GenreNames(genContent.result.preferences.genres))))

\* A question with an id and a type of radio or checkbox.
WellFormedQuestion(q) ==
  /\ q.t = "object"
  /\ q.type \in {"radio", "checkbox"}

\* C29: in every state of the questionnaire the current question is a
\* well-formed question; a response that is not ready and carries no
\* nextQuestion never replaces it.
C29_CurrentQuestionWellFormed == WellFormedQuestion(currentQuestion)

MaxQuestions == 13   \* "Ask between 9-13 questions total"

\* No request of the session has been rejected for its history's length.
NeverRejectedForLength == nqResponse.status # 400

\* C22: a questionnaire that still asks has at most 13 answered questions in
\* its history (readiness is forced at the upper bound), and no request of a
\* session is ever rejected by the validation of the history's length.
C22_ReadyForcedAtUpperBound ==
  /\ QuestionnaireShown => Len(conversationHistory) <= MaxQuestions
  /\ NeverRejectedForLength

-----------------------------------------------------------------------------
(* The embedding store.                                                    *)

\* The keys (user_id, title) that have a row in the store.
StoredKeys(rows) == {<<rows[i].user_id, rows[i].title>> : i \in 1..Len(rows)}

\* The rows of the store outside one key, in their order.
RowsOutside(rows, user, title) ==
  SelectSeq(rows, LAMBDA r : ~(r.user_id = user /\ r.title = title))

\* No (user, title) has two rows.
AtMostOneRowPerKey ==
  \A key \in StoredKeys(showEmbeddings) :
    Cardinality(EmbeddingRows(showEmbeddings, key[1], key[2])) = 1

\* A step that serves the rate handler's invocation `req` with success leaves
\* exactly one row for req's (user, title), and it carries req's description
\* and rating; the rows of every other key stay as they were.
StoredOverwrites ==
  \A req \in embedTasks \ embedTasks' :
    embedResponse'.body = "stored" =>
      /\ Cardinality(EmbeddingRows(showEmbeddings', req.auth, req.title)) = 1
      /\ \A i \in EmbeddingRows(showEmbeddings', req.auth, req.title) :
           /\ showEmbeddings'[i].description = req.description
           /\ showEmbeddings'[i].user_rating = req.rating
      /\ RowsOutside(showEmbeddings', req.auth, req.title)
           = RowsOutside(showEmbeddings, req.auth, req.title)

\* The store changes only in a step whose response is "stored", and such a
\* step adds at most one row.
StoreChangesOnlyWhenStored ==
  showEmbeddings' # showEmbeddings =>
    /\ embedResponse'.body = "stored"
    /\ Len(showEmbeddings') <= Len(showEmbeddings) + 1
    /\ Len(showEmbeddings') >= Len(showEmbeddings)

\* C4 (as the code has it): the embedding store never holds two rows for one
\* (user, title); every invocation of generate-embedding that the rate
\* handler sent and that is answered with success leaves exactly one row for
\* its (user, title), overwritten with that invocation's description and
\* rating, and leaves all other rows alone; an invocation that fails or is
\* still in flight leaves the store unchanged, so a title rated 4 or 5 may
\* have no row.
C4_UpsertKeepsOneRowPerKey ==
  /\ [](AtMostOneRowPerKey)
  /\ [][StoredOverwrites /\ StoreChangesOnlyWhenStored]_vars

\* C4 witness: a rating of 4 given on the card has been stored as the one row
\* of (u1, title), next to the row another user holds for the same title.
C4_HighRatingStored ==
  /\ embedResponse.body = "stored"
  /\ embedResponse.rating = 4
  /\ Len(showEmbeddings) = 2
  /\ showEmbeddings[2].user_id = "u1"
  /\ showEmbeddings[2].description = "d1"
  /\ showEmbeddings[2].user_rating = 4
  /\ showEmbeddings[1] = OtherUsersRow

\* C4 as stated: once nothing is in flight, every (user, title) whose
\* recommendation is rated 4 or 5 has exactly one embedding row.
C4_ExactlyOneRowPerHighRating ==
  InFlight = 0 =>
    \A i \in 1..Len(recsTable) :
      IsHighRating(recsTable[i].user_rating) =>
        Cardinality(EmbeddingRows(showEmbeddings, recsTable[i].user_id,
                                  recsTable[i].title)) = 1

\* C5: every stored embedding row has user_rating 4 or 5; the rate handler
\* never invokes generate-embedding for a rating below 4; the endpoint answers
\* a request whose rating is 1, 2 or 3 with "skipped", and the store changes
\* only in a step that answers a request rated 4 or more.
C5_LowRatingNeverStored ==
  /\ [](/\ \A i \in 1..Len(showEmbeddings) : showEmbeddings[i].user_rating \in {4, 5}
        /\ \A req \in embedTasks : req.rating >= 4
        /\ embedResponse.rating \in 1..3 => embedResponse.body = "skipped")
  /\ [][showEmbeddings' # showEmbeddings => embedResponse'.rating >= 4]_vars

\* C5 witness: the user holds a stored row, the card's rating has since been
\* lowered to 3, and a request rated 3 has just been answered "skipped".
C5_LowRatingSkipped ==
  /\ embedResponse.rating = 3
  /\ embedResponse.body = "skipped"
  /\ recsTable[1].user_rating = 3
  /\ Len(showEmbeddings) = 2
  /\ showEmbeddings[2].user_rating \in {4, 5}

\* C6: once the update of markWatched(id, true, false) has succeeded and no
\* update is in flight any more, while that call is still the user's latest on
\* the card, the persisted user_rating of the recommendation is 1.
C6_DislikeForcesRatingOne ==
  \A i \in CardIds :
    (pendingWrites = {} /\ lastOp[i] = Op("dislike", "ok"))
      => recsTable[recommendations[i].id].user_rating = 1

\* The step serves request req: it leaves the requests in flight.
Serves(req) == req \in embedTasks /\ embedTasks' = embedTasks \ {req}

\* The rows the step wrote: appended, or overwritten in place.
WrittenRows ==
  {i \in 1..Len(showEmbeddings') :
     i > Len(showEmbeddings) \/ showEmbeddings'[i] # showEmbeddings[i]}

\* The step keeps every row, and every row it wrote belongs to req's caller,
\* who carries a valid credential.
WritesOnlyForCaller(req) ==
  /\ Len(showEmbeddings') >= Len(showEmbeddings)
  /\ \A i \in WrittenRows :
       req.auth \in Users /\ showEmbeddings'[i].user_id = req.auth

\* C16 as stated: the endpoint writes only for a valid credential and only
\* rows of the caller, and every request without a valid credential is
\* answered unauthorized and leaves the store unchanged.
C16_InvalidCredentialUnauthorized ==
  [][\A req \in embedTasks :
       Serves(req) =>
         /\ WritesOnlyForCaller(req)
         /\ req.auth \notin Users =>
              /\ embedResponse'.status = 401
              /\ showEmbeddings' = showEmbeddings]_vars

\* C16, amended: the endpoint writes only for a valid credential and only
\* rows of the caller; a request without a valid credential leaves the store
\* unchanged and is answered unauthorized if it carries all fields and a
\* rating of 4 or more; with a field missing it is answered 400, and with a
\* rating below 4 it is answered 200 as skipped, before the credential is read.
C16_InvalidCredentialNeverWrites ==
  [][\A req \in embedTasks :
       Serves(req) =>
         /\ WritesOnlyForCaller(req)
         /\ req.auth \notin Users =>
              /\ showEmbeddings' = showEmbeddings
              /\ embedResponse'.status =
                   IF req.rating = 0 THEN 400
                   ELSE IF req.rating < 4 THEN 200
                   ELSE 401]_vars

\* A request without a valid credential and with a rating of 5 has been
\* answered unauthorized.
C16_UnauthorizedAnswered ==
  /\ embedTasks = {}
  /\ embedResponse.status = 401
  /\ embedResponse.rating = 5

-----------------------------------------------------------------------------
(* The feedback loop.                                                      *)

\* A generate-embedding invocation sent by the rate handler has been answered.
EmbeddingSettles == embedTasks' # embedTasks /\ embedTasks' \subseteq embedTasks

\* C14: a rating of 4 or 5 whose update succeeded is stored and reported with
\* the success toast in the step that sends the generate-embedding invocation,
\* without waiting for it; the answer to the invocation, whatever it is,
\* changes neither the stored ratings nor what the user was told.
C14_RatingIndependentOfEmbedding ==
  [][/\ \A w \in pendingWrites :
          (ApplyRateWrite(w, TRUE) /\ IsHighRating(w.rating))
            => /\ recsTable'[w.id].user_rating = w.rating
               /\ toast' = RatedToast
               /\ showEmbeddings' = showEmbeddings
               /\ embedResponse' = embedResponse
     /\ EmbeddingSettles => (recsTable' = recsTable /\ toast' = toast)]_vars

\* A rating of 4 or 5 is stored and was reported as saved although the
\* invocation it sent failed.
C14_RatedWhileEmbeddingFailed ==
  /\ embedTasks = {}
  /\ pendingWrites = {}
  /\ embedResponse.status = 500
  /\ toast = RatedToast
  /\ recsTable[1].user_rating >= 4
  /\ showEmbeddings = <<OtherUsersRow>>

-----------------------------------------------------------------------------
(* The recommendation request.                                             *)

\* The request has been served and its response is not yet received.
Responded == recPc = "responded"

\* The response in flight is a success; its records, if it carries an array.
Succeeded == Responded /\ recResponse.status = 200
HasBatch == Succeeded /\ Truthy(recResponse.body.recommendations)
ReturnedBatch == recResponse.body.recommendations.v

\* C3: the candidates handed to the generative step contain no title of a
\* seed of the request, no title of the request's watchedShows, and no title
\* the store holds as recommended to the caller before.
C3_CandidatesExcludeKnownTitles ==
  (Responded /\ recResponse.status # 400) =>
    LET candidates == Range(recCtx.candidates)
    IN  /\ candidates \cap Range(recCtx.seeds) = {}
        /\ candidates \cap Range(recReq.watchedShows) = {}
        /\ recCtx.userId \in Users =>
             candidates \cap Range(TitlesOf(recsTable, recCtx.userId)) = {}

\* C7: a success response carries exactly 6 records, each with all its
\* fields.
C7_SixCompleteRecords ==
  Succeeded =>
    /\ Truthy(recResponse.body.recommendations)
    /\ Len(ReturnedBatch) = BatchSize
    /\ \A i \in 1..Len(ReturnedBatch) : ReturnedBatch[i].complete

\* C8: no record returned to a signed-in user has a title the store holds as
\* recommended to that user before, and no displayed card is a repeat.
C8_NoPreviouslyRecommendedTitle ==
  /\ (HasBatch /\ recReq.auth \in Users) =>
       \A i \in 1..Len(ReturnedBatch) :
         ReturnedBatch[i].title \notin Range(TitlesOf(recsTable, recReq.auth))
  /\ \A i \in 1..Len(recommendations) : ~recommendations[i].isRepeat

\* C9: when the preferences ask for movies only (series only), every record
\* of a success response is a Movie (a Series).
C9_TypeMatchesContentType ==
  HasBatch =>
    /\ ContentTypeOf(recReq.preferences) = "Movies only" =>
         \A i \in 1..Len(ReturnedBatch) : ReturnedBatch[i].type = "Movie"
    /\ ContentTypeOf(recReq.preferences) = "Series only" =>
         \A i \in 1..Len(ReturnedBatch) : ReturnedBatch[i].type = "Series"

\* C10: in the batch of a success response no genre is on more than 2
\* records.
C10_AtMostTwoPerGenre ==
  HasBatch =>
    \A g \in {ReturnedBatch[i].genre : i \in 1..Len(ReturnedBatch)} :
      Cardinality({i \in 1..Len(ReturnedBatch) : ReturnedBatch[i].genre = g}) <= 2

\* The titles of the embedding rows stored for a user.
OwnEmbeddingTitles(user) ==
  {showEmbeddings[i].title :
     i \in {j \in 1..Len(showEmbeddings) : showEmbeddings[j].user_id = user}}

\* C15: the embedding candidates of a signed-in caller's request are titles
\* of embedding rows stored for that caller.
C15_CandidatesFromOwnRows ==
  (Responded /\ recResponse.status # 400 /\ recCtx.userId \in Users) =>
    Range(recCtx.candidates) \subseteq OwnEmbeddingTitles(recCtx.userId)

\* The request in flight as a caller without a credential would send it.
Unauthenticated(req) == [req EXCEPT !.auth = "none"]

\* The context a failed read leaves is part of the context without the
\* failure: the caller or none, and each list as read or empty.
Degraded(context, full) ==
  /\ context.userId \in {full.userId, "none"}
  /\ context.previouslyRecommended \in {full.previouslyRecommended, <<>>}
  /\ context.ratingHistory \in {full.ratingHistory, <<>>}
  /\ context.seeds \in {full.seeds, <<>>}
  /\ Range(context.candidates) \subseteq
       Range(AllSimilarTitles(<<>>, SeedEmbeddings(showEmbeddings, full.userId),
                              showEmbeddings, recReq.watchedShows,
                              context.previouslyRecommended))

\* C17: whichever read of the enrichment block fails, and however, the
\* request in flight is answered for every generative output as the same
\* request without a credential is answered, and the generative step is
\* handed the part of the context that was gathered; after a failed
\* credential check that is the context of a request without a credential.
C17_EnrichmentFailureNeverFails ==
  (recPc = "sent" /\ ValidPreferences(recReq.preferences)) =>
    \A faults \in FaultSamples, gen \in RecGenOutputs :
      LET out  == ServeRecommendationsRequest(recReq, faults, gen, recsTable,
                                              showEmbeddings)
          full == ServeRecommendationsRequest(recReq, NoFault, gen, recsTable,
                                              showEmbeddings)
          anon == ServeRecommendationsRequest(Unauthenticated(recReq), NoFault, gen,
                                              recsTable, showEmbeddings)
      IN  /\ out.response = anon.response
          /\ Degraded(out.context, full.context)
          /\ faults.at = "user" => out.context = anon.context

\* A signed-in caller's request whose credential check failed has been
\* answered with a batch, on the context of a request without a credential.
C17_AnsweredAfterFailedRead ==
  /\ HasBatch
  /\ recReq.auth \in Users
  /\ SeedEmbeddings(showEmbeddings, recReq.auth) # <<>>
  /\ recCtx.userId = "none"

\* The page receives a batch for a signed-in user and the insert of its rows
\* fails.
BatchSaveFails ==
  /\ recPc = "responded" /\ recPc' = "idle"
  /\ recResponse.status = 200
  /\ Truthy(recResponse.body.recommendations)
  /\ session \in Users
  /\ InsertFails(recResponse.body.recommendations.v)

\* C18: a failed update of a rating and a failed insert of a generated batch
\* both end with a destructive toast, never with a success toast.
C18_PrimaryWriteFailureSurfaced ==
  [][/\ \A w \in pendingWrites : ApplyRateWrite(w, FALSE) => toast'.destructive
     /\ BatchSaveFails => toast'.destructive]_vars

\* The request has been served past validation: the enrichment block ran.
Enriched == Responded /\ recResponse.status # 400

NoDuplicates(s) == \A i, j \in 1..Len(s) : s[i] = s[j] => i = j

\* C19: the embedding candidates handed to the generative step hold no title
\* twice and are at most 30.
C19_CandidatesDistinctAndCapped ==
  Enriched =>
    /\ NoDuplicates(recCtx.candidates)
    /\ Len(recCtx.candidates) <= CandidateCap

\* Two seeds at one point found the same titles and two seeds further apart
\* found more than 30 distinct ones: the candidates are cut to 30.
C19_CapReached ==
  /\ Enriched
  /\ Len(recCtx.seeds) = SeedLimit
  /\ Len(recCtx.candidates) = CandidateCap

\* The highest similarity between a seed and a stored row of the title.
BestSimilarity(title, seeds, rows) ==
  LET sims == {Similarity(rows[i].embedding, seeds[s].embedding) :
                 s \in 1..Len(seeds),
                 i \in {j \in 1..Len(rows) : rows[j].title = title}}
  IN  CHOOSE m \in sims : \A x \in sims : x <= m

\* C20: when the seeds' queries find more than 30 eligible titles, no title
\* left out of the candidates is more similar to a seed than a title kept.
C20_MostSimilarKept ==
  (Enriched /\ recCtx.candidates # <<>>) =>
    LET seeds == SeedEmbeddings(showEmbeddings, recCtx.userId)
        found == AllSimilarTitles(<<>>, seeds, showEmbeddings, recReq.watchedShows,
                                  recCtx.previouslyRecommended)
        kept  == Range(recCtx.candidates)
    IN  Len(found) > CandidateCap =>
          \A dropped \in Range(found) \ kept, c \in kept :
            BestSimilarity(dropped, seeds, showEmbeddings)
              <= BestSimilarity(c, seeds, showEmbeddings)

\* The caller of the served request has no stored embedding: a signed-in user
\* without a row in show_embeddings, or a caller without a valid credential.
ColdStart ==
  /\ Enriched
  /\ \/ recReq.auth \notin Users
     \/ \A i \in 1..Len(showEmbeddings) : showEmbeddings[i].user_id # recReq.auth

\* C21: a validated recommendation request of a caller with no stored
\* embedding has an empty candidate list, reaches the gateway call, and, when
\* the gateway produced a JSON object, is answered 200 with that object.
C21_ColdStartStillServed ==
  ColdStart =>
    /\ recCtx.candidates = <<>>
    /\ recGen # NoGen
    /\ recGen.kind = "json" => recResponse = [status |-> 200, body |-> recGen.body]

\* A signed-in user without embeddings, while another user has some, is
\* answered with the gateway's batch of six.
C21_ColdStartAnswered ==
  /\ ColdStart
  /\ recReq.auth \in Users
  /\ showEmbeddings # <<>>
  /\ HasBatch
  /\ Len(ReturnedBatch) = BatchSize

\* The analysis flagged a strong preference for series or for movies.
StrongPreferenceFlagged ==
  recInsight \in {"STRONGLY prefers TV Series", "STRONGLY prefers Movies"}

\* C24: a strong preference is flagged exactly when the history the analysis
\* ran on holds rated series and rated movies whose average ratings differ by
\* more than 0.5; with items of one content type only, none is flagged.
C24_StrongPreferenceOnlyBetweenTwoAverages ==
  Enriched =>
    LET history == HistoryRows(recCtx, recsTable)
        series == SeriesRatings(history)
        movies == MovieRatings(history)
    IN  StrongPreferenceFlagged <=>
          /\ Len(series) > 0
          /\ Len(movies) > 0
          /\ DifferByMoreThanHalf(Avg(series), Avg(movies))

\* No update and no generate-embedding invocation of the page is in flight.
FeedbackSettled == pendingWrites = {} /\ embedTasks = {}

\* The user's current rating of the title is 4 or 5.
CurrentlyLoved(user, title) ==
  \E j \in 1..Len(recsTable) :
    /\ recsTable[j].user_id = user
    /\ recsTable[j].title = title
    /\ recsTable[j].user_rating >= 4

\* C25: once the user's feedback calls have completed, every embedding row a
\* recommendation request of the user would select as a seed belongs to a
\* title the user currently rates 4 or 5.
C25_SeedsAreCurrentlyLoved ==
  (session \in Users /\ FeedbackSettled) =>
    LET seeds == SeedEmbeddings(showEmbeddings, session)
    IN  \A i \in 1..Len(seeds) : CurrentlyLoved(session, seeds[i].title)

\* The latest generate-embedding call of the page stored its row.
LastEmbeddingStored ==
  /\ embedResponse.status = 200
  /\ embedResponse.body = "stored"

\* C26: once the user's updates and embedding tasks have completed, the last
\* of them having stored its row, and the recommendation's rating is 4 or 5,
\* the embedding row of its title carries the same user_rating.
C26_EmbeddingRatingFollowsLatestRating ==
  (session \in Users /\ FeedbackSettled /\ LastEmbeddingStored) =>
    \A j \in 1..Len(recsTable) :
      (recsTable[j].user_id = session /\ recsTable[j].user_rating >= 4) =>
        \A i \in EmbeddingRows(showEmbeddings, session, recsTable[j].title) :
          showEmbeddings[i].user_rating = recsTable[j].user_rating

\* Every addShow and removeShow call of the hook has completed.
WatchedSettled == watchedOps = {}

\* C27: once every addShow and removeShow call has completed, the hook's
\* local list holds exactly the titles persisted for the user, each once.
C27_LocalListMatchesStore ==
  WatchedSettled =>
    /\ NoDuplicates(shows)
    /\ Range(shows) = Range(watchedTable)

\* The titles of a sequence of records or cards, in order.
Titles(records) == [i \in 1..Len(records) |-> records[i].title]

\* C28: whenever the page is in the results step, the latest response of
\* get-recommendations is a success carrying a batch, and the displayed
\* recommendations are that batch, which is not empty.
C28_ResultsShowLatestBatch ==
  step = "results" =>
    /\ recResponse.status = 200
    /\ Truthy(recResponse.body.recommendations)
    /\ recommendations # <<>>
    /\ Titles(recommendations) = Titles(recResponse.body.recommendations.v)

\* C30: the preferences a ready response delivered are accepted by the
\* recommendation request's validation: no request of a session that reached
\* Ready is answered with a validation error.
C30_DeliveredPreferencesAccepted ==
  Responded => recResponse.status # 400

=============================================================================
